---- MODULE Spec2Model ----
(***************************************************************************)
(* Model of graphrepo.drillers.deps.DependencyDriller: the working-tree   *)
(* scan under ignore rules, import extraction, specifier resolution,      *)
(* keyword extraction and the run loop that materializes import edges and *)
(* keyword rows and hands them to the batch persistence interface.        *)
(*                                                                         *)
(* Text (paths, specifiers, identifiers, ignore lines) is a sequence of   *)
(* one-character strings, so that prefix tests, stripping, splitting and  *)
(* suffix detection are computed character by character as Python does.   *)
(***************************************************************************)
EXTENDS FiniteSets, Integers, Sequences, TLC

----------------------------------------------------------------------------
(* str methods used by deps.py *)

StartsWith(s, p) == Len(s) >= Len(p) /\ SubSeq(s, 1, Len(p)) = p

RECURSIVE LStrip(_, _)
LStrip(s, cs) == IF s # <<>> /\ Head(s) \in cs THEN LStrip(Tail(s), cs) ELSE s

RECURSIVE RStrip(_, _)
RStrip(s, cs) ==
    IF s # <<>> /\ s[Len(s)] \in cs THEN RStrip(SubSeq(s, 1, Len(s) - 1), cs) ELSE s

Strip(s, cs) == RStrip(LStrip(s, cs), cs)

WHITESPACE == {" ", "\t", "\n", "\r"}

Contains(s, c) == \E i \in 1..Len(s) : s[i] = c

Replace(s, old, new) == [i \in 1..Len(s) |-> IF s[i] = old THEN new ELSE s[i]]

\* str.split(sep) for a one-character separator drawn from seps
RECURSIVE SplitFrom(_, _, _)
SplitFrom(s, seps, cur) ==
    IF s = <<>> THEN <<cur>>
    ELSE IF Head(s) \in seps THEN <<cur>> \o SplitFrom(Tail(s), seps, <<>>)
    ELSE SplitFrom(Tail(s), seps, Append(cur, Head(s)))

Split(s, seps) == SplitFrom(s, seps, <<>>)

\* re.split(r"[seps]+", s): a maximal run of separators is one cut
RECURSIVE ReSplitFrom(_, _, _)
ReSplitFrom(s, seps, cur) ==
    IF s = <<>> THEN <<cur>>
    ELSE IF Head(s) \in seps THEN <<cur>> \o ReSplitFrom(LStrip(s, seps), seps, <<>>)
    ELSE ReSplitFrom(Tail(s), seps, Append(cur, Head(s)))

ReSplit(s, seps) == ReSplitFrom(s, seps, <<>>)

RECURSIVE Join(_, _)
Join(parts, sep) ==
    IF parts = <<>> THEN <<>>
    ELSE IF Len(parts) = 1 THEN parts[1]
    ELSE parts[1] \o sep \o Join(Tail(parts), sep)

UPPER ==
    <<"A","B","C","D","E","F","G","H","I","J","K","L","M",
      "N","O","P","Q","R","S","T","U","V","W","X","Y","Z">>

LOWER ==
    <<"a","b","c","d","e","f","g","h","i","j","k","l","m",
      "n","o","p","q","r","s","t","u","v","w","x","y","z">>

LowerChar(c) ==
    IF \E i \in DOMAIN UPPER : UPPER[i] = c
    THEN LOWER[CHOOSE i \in DOMAIN UPPER : UPPER[i] = c]
    ELSE c

\* str.lower()
Lower(s) == [i \in 1..Len(s) |-> LowerChar(s[i])]

\* str.rfind(c), one-based; 0 when c does not occur
RFind(s, c) ==
    IF Contains(s, c)
    THEN CHOOSE i \in 1..Len(s) : s[i] = c /\ \A j \in (i + 1)..Len(s) : s[j] # c
    ELSE 0

----------------------------------------------------------------------------
(* pathlib.PurePosixPath: a path is [root, parts] *)

SplitRoot(part) ==
    IF part # <<>> /\ Head(part) = "/"
    THEN LET stripped == LStrip(part, {"/"})
         IN  [root |-> IF Len(part) - Len(stripped) = 2 THEN <<"/","/">> ELSE <<"/">>,
              rel  |-> stripped]
    ELSE [root |-> <<>>, rel |-> part]

\* empty and "." segments are dropped when a path is parsed; ".." is kept
Segments(rel) == SelectSeq(Split(rel, {"/"}), LAMBDA x : x # <<>> /\ x # <<".">>)

EmptyPath == [root |-> <<>>, parts |-> <<>>]

\* p / s : an absolute right operand replaces the left one
Div(p, s) ==
    LET r == SplitRoot(s)
    IN  IF r.root # <<>>
        THEN [root |-> r.root, parts |-> Segments(r.rel)]
        ELSE [root |-> p.root, parts |-> p.parts \o Segments(r.rel)]

PurePath(s) == Div(EmptyPath, s)

AsPosix(p) ==
    IF p.root = <<>> /\ p.parts = <<>> THEN <<".">> ELSE p.root \o Join(p.parts, <<"/">>)

Parent(p) ==
    IF p.parts = <<>> THEN p
    ELSE [p EXCEPT !.parts = SubSeq(p.parts, 1, Len(p.parts) - 1)]

Name(p) == IF p.parts = <<>> THEN <<>> ELSE p.parts[Len(p.parts)]

SuffixOfName(name) ==
    LET i == RFind(name, ".")
    IN  IF 1 < i /\ i < Len(name) THEN SubSeq(name, i, Len(name)) ELSE <<>>

Suffix(p) == SuffixOfName(Name(p))

\* with_suffix raises ValueError on an empty name; callers test HasName first
HasName(p) == Name(p) # <<>>

WithSuffix(p, suffix) ==
    LET name == Name(p)
        old  == Suffix(p)
        stem == SubSeq(name, 1, Len(name) - Len(old))
    IN  [p EXCEPT !.parts[Len(p.parts)] = stem \o suffix]

----------------------------------------------------------------------------
(* module constants of deps.py *)

SUPPORTED_IMPORT_EXTS ==
    {<<".","j","s">>, <<".","j","s","x">>, <<".","t","s">>, <<".","t","s","x">>, <<".","m","j","s">>, <<".","c","j","s">>, <<".","p","h","p">>}

DEFAULT_IGNORES ==
    <<<<".","g","i","t">>, <<".","h","g">>, <<".","s","v","n">>, <<".","v","e","n","v">>, <<"n","o","d","e","_","m","o","d","u","l","e","s">>, <<"d","i","s","t">>, <<"b","u","i","l","d">>,
      <<"_","_","p","y","c","a","c","h","e","_","_">>, <<".","c","a","c","h","e">>>>

STOPWORDS ==
    {<<>>, <<"s","r","c">>, <<"a","p","p">>, <<"a","p","p","s">>, <<"l","i","b">>, <<"d","i","s","t">>, <<"b","u","i","l","d">>, <<"i","n","d","e","x">>, <<"t","e","s","t">>,
     <<"t","e","s","t","s">>, <<"s","p","e","c">>, <<"t","m","p">>, <<"p","u","b","l","i","c">>, <<"a","s","s","e","t","s">>, <<"v","e","n","d","o","r">>, <<"d","a","t","a">>, <<"s","t","a","t","i","c">>}

KEYWORD_LIMIT == 20

----------------------------------------------------------------------------
(* Ignore rules: _build_ignore_spec / _should_ignore.                      *)
(* A pattern line is compiled as pathspec's GitWildMatchPattern does for   *)
(* the forms drawn here: an optional leading "!", a slash-free glob (a     *)
(* literal name, or "*" followed by a literal tail), an optional trailing  *)
(* "/".  A blank line or a "#" comment compiles to a pattern that never    *)
(* matches.                                                                 *)

EndsWith(s, p) == Len(s) >= Len(p) /\ SubSeq(s, Len(s) - Len(p) + 1, Len(s)) = p

GitWildMatchPattern(line) ==
    LET neg     == StartsWith(line, <<"!">>)
        body    == IF neg THEN Tail(line) ELSE line
        dirOnly == body # <<>> /\ body[Len(body)] = "/"
    IN  [include |-> IF line = <<>> \/ Head(line) = "#" THEN "none"
                     ELSE IF neg THEN "no" ELSE "yes",
         glob    |-> IF dirOnly THEN SubSeq(body, 1, Len(body) - 1) ELSE body,
         dirOnly |-> dirOnly]

GlobMatch(glob, name) ==
    IF glob # <<>> /\ Head(glob) = "*" THEN EndsWith(name, Tail(glob)) ELSE name = glob

\* a slash-free pattern matches at any depth, and matches everything below a
\* matching directory; with a trailing "/" something must follow the match
PatternMatches(pat, path) ==
    LET comps == Split(path, {"/"})
    IN  \E k \in 1..Len(comps) :
            GlobMatch(pat.glob, comps[k]) /\ (pat.dirOnly => k < Len(comps))

DefaultLinesOff == <<>>

default_lines ==
    [i \in DOMAIN DEFAULT_IGNORES |-> DEFAULT_IGNORES[i] \o <<"/">>] \o DEFAULT_IGNORES

\* an ignore file is [exists, lines]; the external one may also not be given
NoFile == [exists |-> FALSE, lines |-> <<>>]

_build_ignore_spec(gitignore_file, custom_file) ==
    LET lines == default_lines
                 \o (IF gitignore_file.exists THEN gitignore_file.lines ELSE <<>>)
                 \o (IF custom_file.exists THEN custom_file.lines ELSE <<>>)
    IN  [i \in 1..Len(lines) |-> GitWildMatchPattern(lines[i])]

\* PathSpec.match_file: the last pattern that matches decides
RECURSIVE MatchFrom(_, _, _)
MatchFrom(patterns, path, matched) ==
    IF patterns = <<>> THEN matched
    ELSE LET pat == Head(patterns)
         IN  MatchFrom(Tail(patterns), path,
                       IF pat.include # "none" /\ PatternMatches(pat, path)
                       THEN pat.include = "yes"
                       ELSE matched)

_should_ignore(ignore_spec, rel_path) == MatchFrom(ignore_spec, rel_path, FALSE)

----------------------------------------------------------------------------
(* Tree scan: _iter_working_files.  The working tree is the set of the     *)
(* repository-relative paths of its files; os.walk descends into a         *)
(* directory only when no directory on the way to it was pruned.           *)

WorkingFile(rel_path, ext) == [rel_path |-> rel_path, ext |-> ext]

DirsOf(rel_path) ==
    LET comps == Split(rel_path, {"/"})
    IN  {Join(SubSeq(comps, 1, k), <<"/">>) : k \in 1..(Len(comps) - 1)}

Descended(ignore_spec, rel_path) ==
    \A d \in DirsOf(rel_path) : ~_should_ignore(ignore_spec, d)

ExtSupported(ext) == Lower(ext) \in SUPPORTED_IMPORT_EXTS

_iter_working_files(files, ignore_spec) ==
    {WorkingFile(f, Lower(SuffixOfName(Name(PurePath(f))))) :
        f \in {g \in files : /\ Descended(ignore_spec, g)
                             /\ ~_should_ignore(ignore_spec, g)
                             /\ ExtSupported(SuffixOfName(Name(PurePath(g))))}}

----------------------------------------------------------------------------
(* File content.  A file on disk is                                         *)
(*   [lang, grammar, readable, stmts, snippet]                              *)
(* lang     what grep_ast.filename_to_lang answers for its name ("none"     *)
(*          when it has no mapping), grammar whether get_language and       *)
(*          get_parser succeed, readable whether the file can be read;      *)
(* stmts    its statements in source order, each [type, text]: for an       *)
(*          import construct the syntax node type and the node text of its  *)
(*          string child (quotes included) or use clause, for a declaration *)
(*          the keyword and the identifier that follows it;                 *)
(* snippet  how many of its statements lie in the first 5000 characters.    *)

Stmt(type, text) == [type |-> type, text |-> text]

JS_LANGS == {"javascript", "typescript"}

PHP_INCLUDE_TYPES ==
    {"require_expression", "require_once_expression",
     "include_expression", "include_once_expression"}

\* the grave accent, which a TLA+ string cannot hold, as a one-element text atom
GRAVE == "<grave>"

\* str.strip of the three quote characters from a string node's text
StripQuotes(text) == Strip(text, {"\"", "'", GRAVE})

\* import_statement string children, and string arguments of require(...)
_extract_js_like_imports(stmts) ==
    LET hits == SelectSeq(stmts,
                    LAMBDA n : n.type \in {"import_statement", "require_call"})
    IN  [i \in 1..Len(hits) |-> StripQuotes(hits[i].text)]

\* require/include string children stripped, use clauses verbatim
_extract_php_imports(stmts) ==
    LET hits == SelectSeq(stmts,
                    LAMBDA n : n.type \in PHP_INCLUDE_TYPES
                               \/ n.type = "namespace_use_clause")
    IN  [i \in 1..Len(hits) |->
            IF hits[i].type = "namespace_use_clause" THEN hits[i].text
            ELSE StripQuotes(hits[i].text)]

Returned(imports) == [raised |-> FALSE, imports |-> imports]

Raised == [raised |-> TRUE, imports |-> <<>>]

\* read_bytes() is outside the try block
ReadBytesGuardedMut(content, imports) == Returned(IF content.readable THEN imports ELSE <<>>)

ReadBytes(content, imports) == IF content.readable THEN Returned(imports) ELSE Raised

_extract_imports(content) ==
    IF content.lang = "none" THEN Returned(<<>>)
    ELSE IF ~content.grammar THEN Returned(<<>>)
    ELSE ReadBytes(content,
            IF content.lang \in JS_LANGS THEN _extract_js_like_imports(content.stmts)
            ELSE IF content.lang = "php" THEN _extract_php_imports(content.stmts)
            ELSE <<>>)

----------------------------------------------------------------------------
(* Resolution: _candidate_paths / _resolve_target *)

EXTS_JsFirstMut == <<<<".","j","s">>, <<".","t","s">>, <<".","t","s","x">>, <<".","j","s","x">>, <<".","m","j","s">>, <<".","c","j","s">>, <<".","p","h","p">>>>

EXTS == <<<<".","t","s">>, <<".","t","s","x">>, <<".","j","s">>, <<".","j","s","x">>, <<".","m","j","s">>, <<".","c","j","s">>, <<".","p","h","p">>>>

_candidate_paths(rel_path) ==
    LET path_obj == PurePath(rel_path)
    IN  IF Suffix(path_obj) # <<>>
        THEN <<AsPosix(path_obj)>>
        ELSE [i \in DOMAIN EXTS |-> rel_path \o EXTS[i]]
             \o [i \in DOMAIN EXTS |->
                    AsPosix(Div(PurePath(rel_path), <<"i","n","d","e","x">> \o EXTS[i]))]

\* a resolution result: a path, None, or an exception leaving the function
Resolved(path) == [kind |-> "path", path |-> path]

None == [kind |-> "none", path |-> <<>>]

ResolveRaised == [kind |-> "raise", path |-> <<>>]

\* the first candidate that is in known_paths, else None
FirstKnown(candidates, known_paths) ==
    IF \E i \in 1..Len(candidates) : candidates[i] \in known_paths
    THEN Resolved(candidates[CHOOSE i \in 1..Len(candidates) :
                        /\ candidates[i] \in known_paths
                        /\ \A j \in 1..(i - 1) : candidates[j] \notin known_paths])
    ELSE None

\* target.strip().strip("\"'")
Cleaned(target) == Strip(Strip(target, WHITESPACE), {"\"", "'"})

RelCandidateRootMut(importer_dir, cleaned) ==
    IF StartsWith(cleaned, <<"/">>) THEN AsPosix(Div(EmptyPath, Tail(cleaned)))
    ELSE AsPosix(Div(importer_dir, cleaned))

\* lines 225-234: a leading "/" is cut off, then the rest is joined to the
\* importing file's directory in either case
BasePath(importer_rel_path, cleaned) ==
    LET rel_candidate == IF StartsWith(cleaned, <<"/">>) THEN Tail(cleaned) ELSE cleaned
        parent        == Parent(PurePath(importer_rel_path))
        importer_dir  == IF AsPosix(parent) = <<".">> THEN PurePath(<<>>) ELSE parent
    IN  AsPosix(Div(importer_dir, rel_candidate))

PhpHeuristic(importer, cleaned) ==
    /\ importer.ext = <<".","p","h","p">>
    /\ Contains(cleaned, "\\")
    /\ ~(StartsWith(cleaned, <<".","/">>) \/ StartsWith(cleaned, <<"/">>))

_resolve_target(importer, target, known_paths) ==
    IF target = <<>> THEN None
    ELSE IF StartsWith(target, <<"h","t","t","p",":","/","/">>) \/ StartsWith(target, <<"h","t","t","p","s",":","/","/">>) THEN None
    ELSE LET cleaned   == Cleaned(target)
             php_guess == PurePath(Replace(cleaned, "\\", "/"))
             php_hit   == FirstKnown(<<AsPosix(WithSuffix(php_guess, <<".","p","h","p">>)),
                                       AsPosix(Div(php_guess, <<"i","n","d","e","x",".","p","h","p">>))>>,
                                     known_paths)
             general   == FirstKnown(_candidate_paths(BasePath(importer.rel_path, cleaned)),
                                     known_paths)
         IN  IF cleaned = <<>> THEN None
             ELSE IF ~PhpHeuristic(importer, cleaned) THEN general
             ELSE IF ~HasName(php_guess) THEN ResolveRaised
             ELSE IF php_hit.kind = "path" THEN php_hit
             ELSE general

----------------------------------------------------------------------------
(* Keywords: _extract_keywords *)

PATH_SEPS == {"\\", "/", ".", "_", "-"}

IDENT_PATTERNS == <<"class", "function", "def", "const">>

InSeq(x, seq) == \E i \in 1..Len(seq) : seq[i] = x

IsStopwordOffMut(lower) == FALSE

\* lower in STOPWORDS or not lower
IsStopword(lower) == lower \in STOPWORDS \/ lower = <<>>

\* one pass of "lowercase, skip stopwords, append unless present"
RECURSIVE AddTokens(_, _)
AddTokens(keywords, toks) ==
    IF toks = <<>> THEN keywords
    ELSE LET lower == Lower(Head(toks))
         IN  AddTokens(IF IsStopword(lower) THEN keywords
                       ELSE IF InSeq(lower, keywords) THEN keywords
                       ELSE Append(keywords, lower),
                       Tail(toks))

\* read_text is guarded: an unreadable file has text ""; then text[:5000]
Snippet(content) ==
    IF content.readable THEN SubSeq(content.stmts, 1, content.snippet) ELSE <<>>

\* re.findall of one identifier pattern: the captured identifiers, in order
FindAll(pat, snippet) ==
    LET hits == SelectSeq(snippet, LAMBDA n : n.type = pat)
    IN  [i \in 1..Len(hits) |-> hits[i].text]

RECURSIVE AllMatches(_, _)
AllMatches(patterns, snippet) ==
    IF patterns = <<>> THEN <<>>
    ELSE FindAll(Head(patterns), snippet) \o AllMatches(Tail(patterns), snippet)

TruncateOffMut(keywords) == keywords

\* keywords[:KEYWORD_LIMIT]
Truncate(keywords) ==
    SubSeq(keywords, 1, IF Len(keywords) < KEYWORD_LIMIT THEN Len(keywords) ELSE KEYWORD_LIMIT)

_extract_keywords(rel_path, content) ==
    LET from_path == AddTokens(<<>>, ReSplit(rel_path, PATH_SEPS))
    IN  Truncate(AddTokens(from_path, AllMatches(IDENT_PATTERNS, Snippet(content))))

----------------------------------------------------------------------------
(* Collaborators outside deps.py *)

\* utils.get_path_hashes(rel_path, project_id): the identity of a path, a
\* function of the path alone within one project; distinct paths differ
get_path_hashes(rel_path) ==
    [merge_hash |-> <<"m",":">> \o rel_path, hash |-> <<"h",":">> \o rel_path]

----------------------------------------------------------------------------
(* State *)

VARIABLES
    files,            \* the working tree: repository-relative paths of its files
    disk,             \* path -> file content
    gitignore_file,   \* <repo_root>/.gitignore
    custom_file,      \* the ignore file given to the constructor
    store,            \* File nodes of the project in the graph: [merge_hash, hash]
    pc,               \* where run() stands
    run_no,           \* 1 for the first run() on this driller, 2 for the next
    known_files,      \* run() locals ...
    working_files,
    working_paths,
    file_hashes,
    imports,
    relations,
    keywords_rows,
    idx,              \* position of the per-file loop in working_files
    targets,          \* specifiers of the current file still to be handled
    scanned,          \* whether this run walked the working tree
    calls,            \* batch persistence calls made by this run, in order
    result,           \* what this run returned
    log,              \* what became of each specifier handled by this run
    error,            \* the call whose exception ended this run, if any
    prev,             \* outcome of the first run, kept when a second one starts
    fn                \* a single call of a pure method: its arguments and result

env == <<files, disk, gitignore_file, custom_file, store>>

\* self.ignore_spec, built once by __init__ from the two ignore files
ignore_spec == _build_ignore_spec(gitignore_file, custom_file)

locals == <<known_files, working_files, working_paths, file_hashes, imports,
            relations, keywords_rows, idx, targets>>

observed == <<scanned, calls, result, log, error>>

vars == <<env, pc, run_no, locals, observed, prev, fn>>

NotReturned == [returned |-> FALSE, imports |-> 0, keyworded_files |-> 0]

Return(n_imports, n_keyworded) ==
    [returned |-> TRUE, imports |-> n_imports, keyworded_files |-> n_keyworded]

NoPrev == [pc |-> "none", result |-> NotReturned, edges |-> {}, rows |-> {}]

Content(lang, grammar, readable, stmts) ==
    [lang |-> lang, grammar |-> grammar, readable |-> readable,
     stmts |-> stmts, snippet |-> Len(stmts)]

FileNode(rel_path) == get_path_hashes(rel_path)

\* nothing has run yet
Fresh ==
    /\ run_no = 1
    /\ known_files = <<>>
    /\ working_files = <<>>
    /\ working_paths = {}
    /\ file_hashes = <<>>
    /\ imports = {}
    /\ relations = <<>>
    /\ keywords_rows = <<>>
    /\ idx = 0
    /\ targets = <<>>
    /\ scanned = FALSE
    /\ calls = <<>>
    /\ result = NotReturned
    /\ log = <<>>
    /\ error = "none"
    /\ prev = NoPrev

\* the driller after __init__, before run()
Constructed ==
    /\ Fresh
    /\ pc = "start"
    /\ fn = [op |-> "run"]

----------------------------------------------------------------------------
(* run(): lines 286-357, one action per step of its loops *)

SetOf(seq) == {seq[i] : i \in 1..Len(seq)}

\* every order in which the walk can yield a set of files
Orderings(S) ==
    {seq \in [1..Cardinality(S) -> S] : \A i, j \in DOMAIN seq : i # j => seq[i] # seq[j]}

\* _load_known_files: merge_hash -> hash, rows without a merge_hash dropped
_load_known_files ==
    LET rows == {r \in store : r.merge_hash # <<>>}
    IN  [mh \in {r.merge_hash : r \in rows} |->
            (CHOOSE r \in rows : r.merge_hash = mh).hash]

NoKnownFilesOffMut(known) == FALSE

\* "if not known_files"
NoKnownFiles(known) == DOMAIN known = {}

ZeroReturn ==
    /\ result' = Return(0, 0)
    /\ pc' = "done"

\* lines 291-294
LoadKnown ==
    /\ pc = "start"
    /\ known_files' = _load_known_files
    /\ IF NoKnownFiles(known_files')
       THEN ZeroReturn
       ELSE pc' = "scan" /\ UNCHANGED result
    /\ UNCHANGED <<env, run_no, working_files, working_paths, file_hashes, imports,
                   relations, keywords_rows, idx, targets, scanned, calls, log, error,
                   prev, fn>>

StaleImportsMut == imports

\* line 306: imports is a fresh local of every run
FreshImports == {}

\* lines 296-308
Scan ==
    /\ pc = "scan"
    /\ \E order \in Orderings(_iter_working_files(files, ignore_spec)) :
          /\ working_files' = order
          /\ scanned' = TRUE
          /\ IF order = <<>>
             THEN /\ ZeroReturn
                  /\ UNCHANGED <<working_paths, file_hashes, imports, relations,
                                 keywords_rows, idx>>
             ELSE /\ working_paths' = {wf.rel_path : wf \in SetOf(order)}
                  /\ file_hashes' = [p \in working_paths' |-> get_path_hashes(p)]
                  /\ imports' = FreshImports
                  /\ relations' = <<>>
                  /\ keywords_rows' = <<>>
                  /\ idx' = 1
                  /\ pc' = "file"
                  /\ UNCHANGED result
    /\ UNCHANGED <<env, run_no, known_files, targets, calls, log, error, prev, fn>>

InLoop == pc = "file" /\ idx <= Len(working_files)

WfFirstMut == working_files[1]

\* the loop variable of line 310
wf == working_files[idx]

hashes == file_hashes[wf.rel_path]

IsKnownOffMut(merge_hash) == TRUE

\* "merge_hash in known_files"
IsKnown(merge_hash) == merge_hash \in DOMAIN known_files

\* lines 310-314: a scanned file that is not a known File is passed over
SkipFile ==
    /\ InLoop
    /\ ~IsKnown(hashes.merge_hash)
    /\ idx' = idx + 1
    /\ UNCHANGED <<env, pc, run_no, known_files, working_files, working_paths,
                   file_hashes, imports, relations, keywords_rows, targets,
                   observed, prev, fn>>

KeywordRow(h, kw) == [merge_hash |-> h.merge_hash, hash |-> h.hash, keywords |-> kw]

\* lines 316-320
Keywords ==
    /\ InLoop
    /\ IsKnown(hashes.merge_hash)
    /\ keywords_rows' = Append(keywords_rows,
            KeywordRow(hashes, _extract_keywords(wf.rel_path, disk[wf.rel_path])))
    /\ pc' = "imports"
    /\ UNCHANGED <<env, run_no, known_files, working_files, working_paths,
                   file_hashes, imports, relations, idx, targets, observed, prev, fn>>

\* line 323; an exception leaving _extract_imports leaves run()
ExtractImports ==
    /\ pc = "imports"
    /\ LET r == _extract_imports(disk[wf.rel_path])
       IN  IF r.raised
           THEN pc' = "raised" /\ error' = "read_bytes" /\ UNCHANGED targets
           ELSE pc' = "targets" /\ targets' = r.imports /\ UNCHANGED error
    /\ UNCHANGED <<env, run_no, known_files, working_files, working_paths,
                   file_hashes, imports, relations, keywords_rows, idx,
                   scanned, calls, result, log, prev, fn>>

\* lines 324-347, one specifier per step
AtTarget == pc = "targets" /\ targets # <<>>

target == Head(targets)

ResolvedAmongKnownMut ==
    _resolve_target(wf, target,
        {p \in working_paths : get_path_hashes(p).merge_hash \in DOMAIN known_files})

\* line 325
resolved == _resolve_target(wf, target, working_paths)

TgtHashesSelfMut(path) == hashes

\* lines 328-331
TgtHashes(path) ==
    IF path \in DOMAIN file_hashes THEN file_hashes[path] ELSE get_path_hashes(path)

SeenOffMut(key) == FALSE

\* "edge_key in imports"
Seen(key) == key \in imports

ImportEdge(src, dst) ==
    [src_merge_hash |-> src.merge_hash, src_hash |-> src.hash,
     dst_merge_hash |-> dst.merge_hash, dst_hash |-> dst.hash]

Logged(res, outcome) ==
    log' = Append(log, [src |-> wf.rel_path, target |-> target,
                        resolved |-> res, outcome |-> outcome])

NextTarget ==
    /\ targets' = Tail(targets)
    /\ UNCHANGED <<env, pc, run_no, known_files, working_files, working_paths,
                   keywords_rows, idx, scanned, calls, result, error, prev, fn>>

\* lines 329-331: the target's hashes are remembered
Remember(path, tgt_hashes) ==
    file_hashes' = [p \in DOMAIN file_hashes \cup {path} |->
                       IF p = path THEN tgt_hashes ELSE file_hashes[p]]

\* an exception leaving _resolve_target leaves run()
ResolveRaises ==
    /\ AtTarget
    /\ resolved.kind = "raise"
    /\ pc' = "raised"
    /\ error' = "with_suffix"
    /\ UNCHANGED <<env, run_no, locals, scanned, calls, result, log, prev, fn>>

\* lines 326-327
DropUnresolved ==
    /\ AtTarget
    /\ LET res == resolved
       IN  /\ res.kind = "none"
           /\ Logged(res, "unresolved")
    /\ NextTarget
    /\ UNCHANGED <<file_hashes, imports, relations>>

\* lines 328-334
DropUnknownTarget ==
    /\ AtTarget
    /\ LET res        == resolved
           tgt_hashes == TgtHashes(res.path)
       IN  /\ res.kind = "path"
           /\ ~IsKnown(tgt_hashes.merge_hash)
           /\ Remember(res.path, tgt_hashes)
           /\ Logged(res, "unknown")
    /\ NextTarget
    /\ UNCHANGED <<imports, relations>>

\* lines 336-338
DropDuplicate ==
    /\ AtTarget
    /\ LET res        == resolved
           tgt_hashes == TgtHashes(res.path)
       IN  /\ res.kind = "path"
           /\ IsKnown(tgt_hashes.merge_hash)
           /\ Seen(<<hashes.merge_hash, tgt_hashes.merge_hash>>)
           /\ Remember(res.path, tgt_hashes)
           /\ Logged(res, "duplicate")
    /\ NextTarget
    /\ UNCHANGED <<imports, relations>>

\* lines 339-347
AddEdge ==
    /\ AtTarget
    /\ LET res        == resolved
           tgt_hashes == TgtHashes(res.path)
           edge_key   == <<hashes.merge_hash, tgt_hashes.merge_hash>>
       IN  /\ res.kind = "path"
           /\ IsKnown(tgt_hashes.merge_hash)
           /\ ~Seen(edge_key)
           /\ Remember(res.path, tgt_hashes)
           /\ imports' = imports \cup {edge_key}
           /\ relations' = Append(relations, ImportEdge(hashes, tgt_hashes))
           /\ Logged(res, "edge")
    /\ NextTarget

\* the inner loop is exhausted: on to the next file
FileDone ==
    /\ pc = "targets"
    /\ targets = <<>>
    /\ idx' = idx + 1
    /\ pc' = "file"
    /\ UNCHANGED <<env, run_no, known_files, working_files, working_paths,
                   file_hashes, imports, relations, keywords_rows, targets,
                   observed, prev, fn>>

Call(op, rows) == [op |-> op, rows |-> rows]

BatchPerRowMut(made, op, rows) ==
    made \o [i \in 1..Len(rows) |-> Call(op, <<rows[i]>>)]

\* "if rows: b_utl.<op>(self.graph, rows, ...)": one call with the whole list
Batch(made, op, rows) == IF rows # <<>> THEN Append(made, Call(op, rows)) ELSE made

\* lines 349-350
PersistKeywords ==
    /\ pc = "file"
    /\ idx > Len(working_files)
    /\ calls' = Batch(calls, "set_file_keywords", keywords_rows)
    /\ pc' = "index"
    /\ UNCHANGED <<env, run_no, locals, scanned, result, log, error, prev, fn>>

\* lines 351-357
PersistImports ==
    /\ pc = "index"
    /\ calls' = Batch(calls, "index_imports", relations)
    /\ result' = Return(Len(relations), Len(keywords_rows))
    /\ pc' = "done"
    /\ UNCHANGED <<env, run_no, locals, scanned, log, error, prev, fn>>

\* what a run has produced once it returned: nothing when it returned early
Produced == pc = "done" /\ scanned /\ working_files # <<>>

EdgesOut == IF Produced THEN SetOf(relations) ELSE {}

RowsOut == IF Produced THEN SetOf(keywords_rows) ELSE {}

\* run() is called again on the same driller: tree, ignore files and File
\* nodes are as before (the persistence calls add no File node)
Rerun ==
    /\ pc \in {"done", "raised"}
    /\ run_no = 1
    /\ prev' = [pc |-> pc, result |-> result,
                edges |-> EdgesOut, rows |-> RowsOut]
    /\ run_no' = 2
    /\ pc' = "start"
    /\ scanned' = FALSE
    /\ calls' = <<>>
    /\ result' = NotReturned
    /\ log' = <<>>
    /\ error' = "none"
    /\ UNCHANGED <<env, locals, fn>>

RunStep ==
    \/ LoadKnown
    \/ Scan
    \/ SkipFile
    \/ Keywords
    \/ ExtractImports
    \/ ResolveRaises
    \/ DropUnresolved
    \/ DropUnknownTarget
    \/ DropDuplicate
    \/ AddEdge
    \/ FileDone
    \/ PersistKeywords
    \/ PersistImports

----------------------------------------------------------------------------
(* Initial states: working trees, file contents, ignore files and File     *)
(* nodes the driller is run against.                                        *)

MaxStmts == 2

MaxLines == 2

SeqsUpTo(S, n) == UNION {[1..k -> S] : k \in 0..n}

A_TS == <<"a",".","t","s">>

FOO_TS == <<"f","o","o",".","t","s">>

FOO_JS == <<"f","o","o",".","j","s">>

NOTES_MD == <<"n","o","t","e","s",".","m","d">>

NM_M_JS == <<"n","o","d","e","_","m","o","d","u","l","e","s","/","m",".","j","s">>

B_TS_UPPER == <<"B",".","T","S">>

P_PHP == <<"p",".","p","h","p">>

APP_M_PHP == <<"A","p","p","/","M",".","p","h","p">>

\* what filename_to_lang answers when the grammar pack knows the extension
LangOf(rel_path) ==
    LET ext == Lower(SuffixOfName(Name(PurePath(rel_path))))
    IN  IF ext \in {<<".","t","s">>, <<".","t","s","x">>} THEN "typescript"
        ELSE IF ext \in {<<".","j","s">>, <<".","j","s","x">>, <<".","m","j","s">>, <<".","c","j","s">>} THEN "javascript"
        ELSE IF ext = <<".","p","h","p">> THEN "php"
        ELSE "none"

Plain(rel_path, stmts) == Content(LangOf(rel_path), TRUE, TRUE, stmts)

\* a TypeScript/JavaScript tree; a.ts and foo.ts hold at most MaxStmts import
\* statements between them, any subset of the tree is known to the graph
JsStmts ==
    {Stmt("import_statement", <<"'",".","/","f","o","o","'">>),
     Stmt("require_call", <<"\"",".","/","f","o","o",".","t","s","\"">>),
     Stmt("import_statement", <<"'",".","/","a","'">>)}

InitEdges ==
    /\ files \in SUBSET {A_TS, FOO_TS, FOO_JS}
    /\ \E sa, sb \in SeqsUpTo(JsStmts, MaxStmts) :
          /\ Len(sa) + Len(sb) <= MaxStmts
          /\ A_TS \notin files => sa = <<>>
          /\ FOO_TS \notin files => sb = <<>>
          /\ disk = [f \in files |->
                        Plain(f, IF f = A_TS THEN sa ELSE IF f = FOO_TS THEN sb ELSE <<>>)]
    /\ store \in SUBSET {FileNode(f) : f \in files}
    /\ gitignore_file = NoFile
    /\ custom_file = NoFile
    /\ Constructed

\* two files importing each other, each with any language mapping, grammar
\* availability and readability
InitFaults ==
    /\ files = {A_TS, FOO_TS}
    /\ \E la, lf \in {"none", "typescript", "python"}, ga, gf, ra, rf \in BOOLEAN :
          disk = [f \in files |->
                    IF f = A_TS
                    THEN Content(la, ga, ra, <<Stmt("import_statement", <<"'",".","/","f","o","o","'">>),
                                               Stmt("class", <<"F","o","o">>)>>)
                    ELSE Content(lf, gf, rf, <<Stmt("import_statement", <<"\"",".","/","a","\"">>)>>)]
    /\ store = {FileNode(f) : f \in files}
    /\ gitignore_file = NoFile
    /\ custom_file = NoFile
    /\ Constructed

\* a PHP tree; a File node may lack its merge_hash
PhpStmts ==
    {Stmt("namespace_use_clause", <<"A","p","p","\\","M">>),
     Stmt("require_once_expression", <<"'",".","/","A","p","p","/","M",".","p","h","p","'">>),
     Stmt("include_expression", <<"\"","\\","\\","\"">>)}

InitPhp ==
    /\ files = {P_PHP, APP_M_PHP}
    /\ \E sp \in SeqsUpTo(PhpStmts, MaxStmts) :
          disk = [f \in files |-> Plain(f, IF f = P_PHP THEN sp ELSE <<>>)]
    /\ store \in SUBSET ({FileNode(f) : f \in files}
                        \cup {[merge_hash |-> <<>>, hash |-> <<"h",":","g","o","n","e",".","p","h","p">>]})
    /\ gitignore_file = NoFile
    /\ custom_file = NoFile
    /\ Constructed

\* a tree with a dependency directory and a file of no supported type, under
\* a .gitignore of at most MaxLines lines and an external ignore file
IgnoreLines ==
    {<<"!","n","o","d","e","_","m","o","d","u","l","e","s">>, <<"!","n","o","d","e","_","m","o","d","u","l","e","s","/">>, <<"*",".","j","s">>, <<"!","*",".","j","s">>, <<"a",".","t","s">>, <<"#"," ","b","u","i","l","d"," ","o","u","t","p","u","t">>}

CustomFiles ==
    {NoFile, [exists |-> TRUE, lines |-> <<>>],
     [exists |-> TRUE, lines |-> <<<<"!","n","o","d","e","_","m","o","d","u","l","e","s">>>>],
     [exists |-> TRUE, lines |-> <<<<"*",".","T","S">>>>]}

InitIgnore ==
    /\ files = {A_TS, B_TS_UPPER, NM_M_JS, NOTES_MD}
    /\ disk = [f \in files |->
                 Plain(f, IF f = A_TS
                          THEN <<Stmt("import_statement", <<"'",".","/","n","o","d","e","_","m","o","d","u","l","e","s","/","m","'">>),
                                 Stmt("require_call", <<"'",".","/","B",".","T","S","'">>)>>
                          ELSE IF f = NM_M_JS
                          THEN <<Stmt("import_statement", <<"'","/","a","'">>)>>
                          ELSE <<>>)]
    /\ store = {FileNode(f) : f \in files}
    /\ gitignore_file \in
          {NoFile} \cup {[exists |-> TRUE, lines |-> l] : l \in SeqsUpTo(IgnoreLines, MaxLines)}
    /\ custom_file \in CustomFiles
    /\ Constructed

\* the same tree and File nodes, run twice
InitTwice ==
    /\ files \in SUBSET {A_TS, FOO_TS, FOO_JS}
    /\ \E sa \in SeqsUpTo(JsStmts, MaxStmts) :
          /\ A_TS \notin files => sa = <<>>
          /\ disk = [f \in files |-> Plain(f, IF f = A_TS THEN sa ELSE <<>>)]
    /\ store \in SUBSET {FileNode(f) : f \in files}
    /\ gitignore_file = NoFile
    /\ custom_file = NoFile
    /\ Constructed

Init == InitEdges \/ InitFaults \/ InitPhp \/ InitIgnore

Next == RunStep

Spec == Init /\ [][Next]_vars

InitRerun == InitTwice \/ InitFaults \/ InitPhp

NextRerun == RunStep \/ Rerun

RerunSpec == InitRerun /\ [][NextRerun]_vars

----------------------------------------------------------------------------
(* Single calls of the pure methods, on arguments drawn from small sets *)

MaxPaths == 3

MaxDecls == 2

\* no driller run is under way
NoRun ==
    /\ files = {}
    /\ disk = <<>>
    /\ gitignore_file = NoFile
    /\ custom_file = NoFile
    /\ store = {}
    /\ pc = "idle"
    /\ Fresh

ResolveImporters ==
    {WorkingFile(A_TS, <<".","t","s">>), WorkingFile(<<"a","/","b","/","c",".","t","s">>, <<".","t","s">>), WorkingFile(P_PHP, <<".","p","h","p">>)}

ResolveTargets ==
    {<<".","/","f","o","o">>, <<"f","o","o">>, <<"'",".","/","f","o","o","\"">>, <<"/","l","i","b","/","x">>, <<".","/","f","o","o",".","j","s">>, <<".","/","f","o","o",".","c","o","n","f","i","g">>, <<".","/","a">>,
     <<".",".","/","f","o","o">>, <<>>, <<"\"">>, <<"h","t","t","p","s",":","/","/","c","d","n",".","e","x","a","m","p","l","e","/","f","o","o">>, <<"A","p","p","\\","M">>, <<"\\","\\">>}

ResolvePaths ==
    {A_TS, FOO_TS, FOO_JS, <<"f","o","o","/","i","n","d","e","x",".","t","s">>, <<"f","o","o",".","c","o","n","f","i","g",".","t","s">>, <<"l","i","b","/","x",".","t","s">>,
     <<"a","/","b","/","f","o","o",".","t","s">>, <<"a","/","b","/","f","o","o",".","j","s">>, <<"a","/","b","/","f","o","o","/","i","n","d","e","x",".","j","s">>, <<"a","/","b","/","l","i","b","/","x",".","t","s">>,
     APP_M_PHP, <<"A","p","p","/","M","/","i","n","d","e","x",".","p","h","p">>}

InitResolve ==
    /\ NoRun
    /\ \E importer \in ResolveImporters, t \in ResolveTargets,
          known_paths \in {k \in SUBSET ResolvePaths : Cardinality(k) <= MaxPaths} :
          fn = [op |-> "_resolve_target", importer |-> importer, target |-> t,
                known_paths |-> known_paths, base_path |-> <<>>, out |-> None,
                done |-> FALSE]

\* one call of _resolve_target; base_path is the local of line 234, as
\* lines 225-234 compute it once target and cleaned are found non-empty
ResolveCall ==
    /\ fn.op = "_resolve_target"
    /\ ~fn.done
    /\ fn' = [fn EXCEPT
                !.out = _resolve_target(fn.importer, fn.target, fn.known_paths),
                !.base_path =
                    IF fn.target = <<>> \/ Cleaned(fn.target) = <<>> THEN <<>>
                    ELSE BasePath(fn.importer.rel_path, Cleaned(fn.target)),
                !.done = TRUE]
    /\ UNCHANGED <<env, pc, run_no, locals, observed, prev>>

ResolveSpec == InitResolve /\ [][ResolveCall]_vars

KeywordPaths ==
    {<<"s","r","c","/","A","p","p","/","F","o","o","-","b","a","r","_","i","n","d","e","x",".","T","S">>,
     <<"l","i","b","/","L","i","b","/","x",".","x",".","j","s">>,
     <<"a","/","b","/","c","/","d","/","e","/","f","/","g","/","h","/","i","/","j","/","k","/","l","/","m","/","n","/","o","/","p","/","q","/","r",".","t","s">>,
     <<"a","/","b","/","c","/","d","/","e","/","f","/","g","/","h","/","i","/","j","/","k","/","l","/","m","/","n","/","o","/","p","/","q","/","r","/","s","/","t","/","u",".","t","s">>}

KeywordStmts ==
    {Stmt("class", <<"F","o","o">>),
     Stmt("function", <<"f","o","o">>),
     Stmt("def", <<"D","a","t","a">>),
     Stmt("const", <<"Z","e","d">>),
     Stmt("import_statement", <<"'",".","/","x","'">>)}

InitKeywords ==
    /\ NoRun
    /\ \E rel_path \in KeywordPaths, stmts \in SeqsUpTo(KeywordStmts, MaxDecls),
          readable \in BOOLEAN :
          \E snippet \in 0..Len(stmts) :
              fn = [op |-> "_extract_keywords", rel_path |-> rel_path,
                    content |-> [Content("typescript", TRUE, readable, stmts)
                                    EXCEPT !.snippet = snippet],
                    out |-> <<>>, done |-> FALSE]

\* one call of _extract_keywords
KeywordCall ==
    /\ fn.op = "_extract_keywords"
    /\ ~fn.done
    /\ fn' = [fn EXCEPT !.out = _extract_keywords(fn.rel_path, fn.content),
                        !.done = TRUE]
    /\ UNCHANGED <<env, pc, run_no, locals, observed, prev>>

KeywordSpec == InitKeywords /\ [][KeywordCall]_vars

----------------------------------------------------------------------------
(* Properties of run() *)

\* the merge hashes of the project's File nodes when the run starts
KnownSet == {r.merge_hash : r \in store} \ {<<>>}

MergeHashOf(rel_path) == get_path_hashes(rel_path).merge_hash

EdgePair(e) == <<e.src_merge_hash, e.dst_merge_hash>>

\* C1: every import edge materialized by run() has its source and its
\* destination merge_hash among the known File nodes, every keyword row has
\* its merge_hash among them, and a specifier that resolved to a scanned path
\* whose merge_hash is not known was passed over (the loop went on to the
\* next specifier) and left no edge.
C1_OnlyKnownIdentities ==
    /\ \A i \in 1..Len(relations) :
          /\ relations[i].src_merge_hash \in KnownSet
          /\ relations[i].dst_merge_hash \in KnownSet
    /\ \A i \in 1..Len(keywords_rows) : keywords_rows[i].merge_hash \in KnownSet
    /\ \A i \in 1..Len(log) :
          (/\ log[i].resolved.kind = "path"
           /\ MergeHashOf(log[i].resolved.path) \notin KnownSet)
          => /\ log[i].outcome = "unknown"
             /\ \A j \in 1..Len(relations) :
                   EdgePair(relations[j]) #
                       <<MergeHashOf(log[i].src), MergeHashOf(log[i].resolved.path)>>

\* a finished run that passed over a specifier whose target is scanned but
\* not known, and materialized another edge
C1_Witness ==
    /\ pc = "done"
    /\ result.returned
    /\ relations # <<>>
    /\ \E i \in 1..Len(log) :
          /\ log[i].outcome = "unknown"
          /\ log[i].resolved.path \in working_paths

\* C2: at every point of the loop and at the end, relations holds at most
\* one edge per (src_merge_hash, dst_merge_hash) and has as many entries as
\* the seen-key set imports; every specifier that resolved to a known target,
\* first or repeated, is represented by exactly one edge.
C2_OneEdgePerPair ==
    /\ Len(relations) = Cardinality(imports)
    /\ \A i, j \in 1..Len(relations) :
          i # j => EdgePair(relations[i]) # EdgePair(relations[j])
    /\ \A i \in 1..Len(log) :
          log[i].outcome \in {"edge", "duplicate"}
          => Cardinality({j \in 1..Len(relations) :
                 EdgePair(relations[j]) =
                     <<MergeHashOf(log[i].src), MergeHashOf(log[i].resolved.path)>>}) = 1

\* two statements of one file resolved to the same known target: the first
\* made the edge, the second was dropped
C2_Witness ==
    \E i, j \in 1..Len(log) :
        /\ i < j
        /\ log[i].src = log[j].src
        /\ log[i].resolved = log[j].resolved
        /\ log[i].outcome = "edge"
        /\ log[j].outcome = "duplicate"

\* a file whose import extraction cannot succeed
Faulty(content) == content.lang = "none" \/ ~content.grammar \/ ~content.readable

\* C5: a per-file failure of import extraction (no language mapping, grammar
\* or parser unavailable, file unreadable) never aborts the run:
\* _extract_imports returns an empty list for that file and the loop goes on;
\* no exception of the file read ends run().
C5_ExtractionFailureContained ==
    /\ (pc \in {"targets", "raised"} /\ Faulty(disk[wf.rel_path]))
       => (pc = "targets" /\ targets = <<>>)
    /\ error # "read_bytes"

\* the walk was made and yielded no file
YieldedNothing == scanned /\ working_files = <<>>

\* C6: with no known File node run() returns zero counts without walking
\* the tree, and with no file yielded by the walk it returns zero counts; in
\* both cases it does not raise and makes no persistence call.
C6_EmptyPreconditions ==
    /\ DOMAIN _load_known_files = {}
       => /\ ~scanned
          /\ pc \in {"start", "done"}
          /\ calls = <<>>
          /\ error = "none"
          /\ pc = "done" => result = Return(0, 0)
    /\ YieldedNothing
       => /\ pc = "done"
          /\ calls = <<>>
          /\ error = "none"
          /\ result = Return(0, 0)

\* a run over a tree that has files, none of which the walk yields, with
\* File nodes known
C6_Witness ==
    /\ pc = "done"
    /\ scanned
    /\ working_files = <<>>
    /\ files # {}
    /\ DOMAIN known_files # {}
    /\ result = Return(0, 0)

\* C7: a second run() against the same tree and the same File nodes ends as
\* the first did, returns the same counts and yields the same set of edges
\* and the same set of keyword rows.
C7_SecondRunSame ==
    (run_no = 2 /\ pc \in {"done", "raised"})
    => /\ prev.pc = pc
       /\ prev.result = result
       /\ prev.edges = EdgesOut
       /\ prev.rows = RowsOut

\* a second run that materialized an edge and dropped a repeated specifier
C7_Witness ==
    /\ run_no = 2
    /\ pc = "done"
    /\ EdgesOut # {}
    /\ Cardinality(RowsOut) >= 2
    /\ \E i \in 1..Len(log) : log[i].outcome = "duplicate"

\* the file lies under a directory named like a built-in default ignore
DefaultDirsAbove(rel_path) ==
    LET comps == Split(rel_path, {"/"})
    IN  {k \in 1..(Len(comps) - 1) : comps[k] \in SetOf(DEFAULT_IGNORES)}

DirPath(rel_path, k) == Join(SubSeq(Split(rel_path, {"/"}), 1, k), <<"/">>)

InOutput(rel_path) ==
    \/ \E i \in 1..Len(working_files) : working_files[i].rel_path = rel_path
    \/ \E i \in 1..Len(relations) :
          MergeHashOf(rel_path) \in {relations[i].src_merge_hash, relations[i].dst_merge_hash}
    \/ \E i \in 1..Len(keywords_rows) : keywords_rows[i].merge_hash = MergeHashOf(rel_path)

\* C8 as claimed: whatever the two ignore files hold, a file under a
\* default-ignored directory name is never yielded by the walk and never
\* appears as importer or target in the output.
C8_DefaultIgnoredNeverYielded ==
    \A f \in files : DefaultDirsAbove(f) # {} => ~InOutput(f)

UserLines ==
    (IF gitignore_file.exists THEN gitignore_file.lines ELSE <<>>)
    \o (IF custom_file.exists THEN custom_file.lines ELSE <<>>)

\* a negated line of the ignore files matches the path
Reincluded(path) ==
    \E i \in 1..Len(UserLines) :
        /\ GitWildMatchPattern(UserLines[i]).include = "no"
        /\ PatternMatches(GitWildMatchPattern(UserLines[i]), path)

\* C8 amended: a file under a default-ignored directory name is never
\* yielded and never appears in the output, unless a negated line of the
\* repository ignore file or of the external ignore file matches the path of
\* that directory.
C8_DefaultIgnoredUnlessNegated ==
    \A f \in files :
        (\E k \in DefaultDirsAbove(f) : ~Reincluded(DirPath(f, k))) => ~InOutput(f)

\* a finished run over a tree with a file under node_modules, where the
\* ignore files hold a negated line that does not match the directory
C8_Witness ==
    /\ pc = "done"
    /\ relations # <<>>
    /\ NM_M_JS \in files
    /\ ~Reincluded(<<"n","o","d","e","_","m","o","d","u","l","e","s">>)
    /\ \E i \in 1..Len(UserLines) : GitWildMatchPattern(UserLines[i]).include = "no"
    /\ ~InOutput(NM_M_JS)

CallsOf(op) == {i \in 1..Len(calls) : calls[i].op = op}

\* C9: no persistence call is made before the per-file loop has ended;
\* set_file_keywords is called at most once, with the whole keyword-row
\* list, index_imports at most once, after it, with the whole edge list; the
\* returned counts are the lengths of these two lists.
C9_BatchAtEnd ==
    /\ pc \in {"start", "scan", "file", "imports", "targets", "raised"} => calls = <<>>
    /\ Cardinality(CallsOf("set_file_keywords")) <= 1
    /\ Cardinality(CallsOf("index_imports")) <= 1
    /\ \A i \in CallsOf("set_file_keywords") : i = 1 /\ calls[i].rows = keywords_rows
    /\ \A i \in CallsOf("index_imports") :
          i = Len(calls) /\ calls[i].rows = relations /\ pc = "done"
    /\ (pc = "done" /\ Produced)
       => /\ result.returned
          /\ keywords_rows # <<>> => CallsOf("set_file_keywords") # {}
          /\ relations # <<>> => CallsOf("index_imports") # {}
          /\ result.keyworded_files = Len(keywords_rows)
          /\ result.imports = Len(relations)

\* a finished run that made both calls, the first with several rows
C9_Witness ==
    /\ pc = "done"
    /\ Len(calls) = 2
    /\ Len(calls[1].rows) >= 2
    /\ Len(calls[2].rows) >= 2

----------------------------------------------------------------------------
(* Properties of the pure methods *)

C3_ORDER == <<<<".","t","s">>, <<".","t","s","x">>, <<".","j","s">>, <<".","j","s","x">>, <<".","m","j","s">>, <<".","c","j","s">>, <<".","p","h","p">>>>

\* the candidates the claim lists for a base path, in its order
C3_Candidates(base) ==
    [i \in 1..Len(C3_ORDER) |-> base \o C3_ORDER[i]]
    \o [i \in 1..Len(C3_ORDER) |-> base \o <<"/","i","n","d","e","x">> \o C3_ORDER[i]]

LastSegment(path) == LET comps == Split(path, {"/"}) IN comps[Len(comps)]

\* the call got to the general resolution with a base path without extension
C3_Case ==
    /\ fn.op = "_resolve_target"
    /\ fn.done
    /\ fn.base_path # <<>>
    /\ ~StartsWith(fn.target, <<"h","t","t","p","s",":","/","/">>)
    /\ ~PhpHeuristic(fn.importer, Cleaned(fn.target))
    /\ ~Contains(LastSegment(fn.base_path), ".")

\* C3: for a base path without extension _resolve_target returns the first
\* of base.ts, .tsx, .js, .jsx, .mjs, .cjs, .php, base/index.ts, ..., base/index.php
\* that is in the scanned path set (None when there is none); so with foo.ts
\* and foo.js both scanned, "./foo" from a sibling file gives foo.ts, and a
\* same-name file wins over a directory index file.
C3_FixedPrecedence ==
    C3_Case =>
        LET exp == C3_Candidates(fn.base_path)
        IN  /\ \/ /\ fn.out = None
                  /\ \A i \in 1..Len(exp) : exp[i] \notin fn.known_paths
               \/ \E i \in 1..Len(exp) :
                     /\ fn.out = Resolved(exp[i])
                     /\ exp[i] \in fn.known_paths
                     /\ \A j \in 1..(i - 1) : exp[j] \notin fn.known_paths
            /\ (/\ fn.importer.rel_path = A_TS
                /\ fn.target = <<".","/","f","o","o">>
                /\ {FOO_TS, FOO_JS} \subseteq fn.known_paths)
               => fn.out = Resolved(FOO_TS)
            /\ (/\ fn.importer.rel_path = <<"a","/","b","/","c",".","t","s">>
                /\ fn.target = <<".","/","f","o","o">>
                /\ {<<"a","/","b","/","f","o","o",".","j","s">>, <<"a","/","b","/","f","o","o","/","i","n","d","e","x",".","j","s">>} \subseteq fn.known_paths
                /\ <<"a","/","b","/","f","o","o",".","t","s">> \notin fn.known_paths)
               => fn.out = Resolved(<<"a","/","b","/","f","o","o",".","j","s">>)

\* "./foo" from a.ts with foo.ts, foo.js and foo/index.ts all scanned
C3_Witness ==
    /\ C3_Case
    /\ fn.importer.rel_path = A_TS
    /\ fn.target = <<".","/","f","o","o">>
    /\ fn.known_paths = {FOO_TS, FOO_JS, <<"f","o","o","/","i","n","d","e","x",".","t","s">>}
    /\ fn.out = Resolved(FOO_TS)

\* C4: the list _extract_keywords returns has at most 20 entries, none of
\* them a stopword or empty, no entry twice, and every entry in lower case.
C4_KeywordBound ==
    (fn.op = "_extract_keywords" /\ fn.done) =>
        /\ Len(fn.out) <= 20
        /\ \A i \in 1..Len(fn.out) :
              /\ fn.out[i] \notin STOPWORDS
              /\ fn.out[i] # <<>>
              /\ \A k \in 1..Len(fn.out[i]) : fn.out[i][k] \notin SetOf(UPPER)
        /\ \A i, j \in 1..Len(fn.out) : i # j => fn.out[i] # fn.out[j]

\* a call that filled the list to 20 and left out an identifier of the text
C4_Witness ==
    /\ fn.op = "_extract_keywords"
    /\ fn.done
    /\ Len(fn.out) = 20
    /\ \E i \in 1..fn.content.snippet :
          /\ fn.content.readable
          /\ fn.content.stmts[i].type = "const"
          /\ ~InSeq(Lower(fn.content.stmts[i].text), fn.out)
    /\ \E i \in 1..fn.content.snippet : InSeq(Lower(fn.content.stmts[i].text), fn.out)

\* C10: a specifier that starts with "/" is resolved from the repository
\* root whatever the importing file's directory is ("/lib/x" from a/b/c.ts
\* has base path lib/x); any other specifier is resolved from the importing
\* file's directory.
C10_RootMarker ==
    (fn.op = "_resolve_target" /\ fn.done /\ fn.base_path # <<>>) =>
        LET cleaned == Cleaned(fn.target)
        IN  IF StartsWith(cleaned, <<"/">>)
            THEN fn.base_path = AsPosix(PurePath(Tail(cleaned)))
            ELSE fn.base_path = AsPosix(Div(Parent(PurePath(fn.importer.rel_path)), cleaned))

\* the base path ends in one of the seven recognized extensions
C11_Recognized(base) ==
    \E i \in 1..Len(C3_ORDER) :
        /\ EndsWith(LastSegment(base), C3_ORDER[i])
        /\ Len(LastSegment(base)) > Len(C3_ORDER[i])

\* C11: _candidate_paths gives the base path alone exactly when it ends in a
\* recognized extension; any other base path, one with another dotted suffix
\* such as foo.config included, gets the 14 same-name and index candidates,
\* so "./foo.config" from a.ts resolves to foo.config.ts when that is scanned.
C11_OnlyRecognizedIsSole ==
    (fn.op = "_resolve_target" /\ fn.done /\ fn.base_path # <<>>) =>
        /\ _candidate_paths(fn.base_path) =
              IF C11_Recognized(fn.base_path) THEN <<fn.base_path>>
              ELSE C3_Candidates(fn.base_path)
        /\ (/\ fn.importer.rel_path = A_TS
            /\ fn.target = <<".","/","f","o","o",".","c","o","n","f","i","g">>
            /\ <<"f","o","o",".","c","o","n","f","i","g",".","t","s">> \in fn.known_paths)
           => fn.out = Resolved(<<"f","o","o",".","c","o","n","f","i","g",".","t","s">>)

----------------------------------------------------------------------------
(* Further properties of run() *)

\* the scanned files that are known File nodes, whatever the walk's order
C12_KnownScanned ==
    {w \in _iter_working_files(files, ignore_spec) : MergeHashOf(w.rel_path) \in KnownSet}

C12_Rows ==
    {KeywordRow(get_path_hashes(w.rel_path),
                _extract_keywords(w.rel_path, disk[w.rel_path])) : w \in C12_KnownScanned}

C12_Targets(w) ==
    LET paths == {v.rel_path : v \in _iter_working_files(files, ignore_spec)}
        found == {_resolve_target(w, t, paths) :
                     t \in SetOf(_extract_imports(disk[w.rel_path]).imports)}
    IN  {r.path : r \in {x \in found : x.kind = "path" /\ MergeHashOf(x.path) \in KnownSet}}

C12_Edges ==
    UNION {{ImportEdge(get_path_hashes(w.rel_path), get_path_hashes(p)) : p \in C12_Targets(w)}
              : w \in C12_KnownScanned}

\* C12: the set of edge records and the set of keyword rows a completed run
\* has built are fixed by the tree, the ignore files and the File nodes alone:
\* every order in which the scanned files are processed ends with the same
\* two sets, only the order of the list entries differs.
C12_OrderIndependent ==
    Produced =>
        /\ SetOf(relations) = C12_Edges
        /\ SetOf(keywords_rows) = C12_Rows

\* a completed run that took foo.ts before a.ts and built edges both ways
C12_Witness ==
    /\ Produced
    /\ Len(working_files) >= 2
    /\ working_files[1].rel_path = FOO_TS
    /\ working_files[2].rel_path = A_TS
    /\ Len(relations) >= 2
    /\ relations[1].src_merge_hash = MergeHashOf(FOO_TS)
    /\ relations[2].src_merge_hash = MergeHashOf(A_TS)
    /\ Len(keywords_rows) >= 2

C13_SelfLoop(e) == e.src_merge_hash = e.dst_merge_hash

\* C13 as stated: no edge built by run() has src_merge_hash equal to
\* dst_merge_hash, and no specifier resolves to the path of the file it
\* stands in.
C13_NoSelfLoop ==
    /\ \A i \in 1..Len(relations) : ~C13_SelfLoop(relations[i])
    /\ \A i \in 1..Len(log) :
          log[i].resolved.kind = "path" => log[i].resolved.path # log[i].src

\* C13: run() does not filter self-loops.  An edge has src_merge_hash equal
\* to dst_merge_hash exactly when a specifier of a known scanned file resolved
\* to that file's own relative path (as "./a" does inside a.ts); a specifier
\* that resolved to another known path gives an edge between two different
\* merge_hashes.
C13_SelfLoopOnlyBySelfImport ==
    /\ \A i \in 1..Len(relations) :
          C13_SelfLoop(relations[i]) =>
              \E j \in 1..Len(log) :
                  /\ log[j].outcome = "edge"
                  /\ log[j].resolved.path = log[j].src
                  /\ MergeHashOf(log[j].src) = relations[i].src_merge_hash
    /\ \A j \in 1..Len(log) :
          log[j].outcome = "edge" =>
              \E i \in 1..Len(relations) :
                  /\ relations[i].src_merge_hash = MergeHashOf(log[j].src)
                  /\ relations[i].dst_merge_hash = MergeHashOf(log[j].resolved.path)
                  /\ C13_SelfLoop(relations[i]) <=> log[j].resolved.path = log[j].src
    /\ \A j \in 1..Len(log) :
          (log[j].src = A_TS /\ log[j].target = <<".","/","a">>) =>
              /\ log[j].resolved = Resolved(A_TS)
              /\ \E i \in 1..Len(relations) :
                    /\ relations[i].src_merge_hash = MergeHashOf(A_TS)
                    /\ relations[i].dst_merge_hash = MergeHashOf(A_TS)

\* a completed run with the self-loop of a.ts and an edge from a.ts to foo.ts
C13_Witness ==
    /\ Produced
    /\ \E i, j \in 1..Len(relations) :
          /\ C13_SelfLoop(relations[i])
          /\ relations[i].src_merge_hash = MergeHashOf(A_TS)
          /\ relations[j].src_merge_hash = MergeHashOf(A_TS)
          /\ relations[j].dst_merge_hash = MergeHashOf(FOO_TS)
    /\ \E j \in 1..Len(log) : log[j].src = A_TS /\ log[j].target = <<".","/","a">>

\* the first candidate of the specifier at hand that is a scanned path
C14_First == _resolve_target(wf, target, {w.rel_path : w \in SetOf(working_files)})

\* C14: when the first scanned candidate of a specifier has a merge_hash
\* that is not a known File node, the step of run() that handles the
\* specifier adds no edge and no seen key and goes on to the next specifier
\* of the same file, whether or not a later candidate is scanned and known;
\* and every path a specifier was resolved to is a scanned path.
C14_NoRetry ==
    /\ [](\A j \in 1..Len(log) :
             log[j].resolved.kind = "path" =>
                 log[j].resolved.path \in {w.rel_path : w \in SetOf(working_files)})
    /\ [][(/\ AtTarget
           /\ C14_First.kind = "path"
           /\ MergeHashOf(C14_First.path) \notin KnownSet)
          => /\ relations' = relations
             /\ imports' = imports
             /\ targets' = Tail(targets)
             /\ pc' = pc
             /\ idx' = idx]_vars

\* a completed run that dropped "./foo" of a.ts at the unknown foo.ts while
\* foo.js was scanned and known, and built no edge from a.ts to foo.js
C14_Witness ==
    /\ Produced
    /\ FOO_JS \in working_paths
    /\ MergeHashOf(FOO_JS) \in KnownSet
    /\ \E j \in 1..Len(log) :
          /\ log[j].src = A_TS
          /\ log[j].target = <<".","/","f","o","o">>
          /\ log[j].resolved = Resolved(FOO_TS)
          /\ log[j].outcome = "unknown"
    /\ \A i \in 1..Len(relations) :
          relations[i].src_merge_hash = MergeHashOf(A_TS)
              => relations[i].dst_merge_hash # MergeHashOf(FOO_JS)

====
